---- MODULE Spec2Model ----
(***************************************************************************)
(* A model of the limit order book of src/orderbook.cpp.                   *)
(*                                                                         *)
(* An Order object lives on the heap and is shared (std::shared_ptr) by    *)
(* the ledger order_map and by one priority queue; the model keeps the     *)
(* objects in the function `orders`, keyed by order id, and lets the       *)
(* queues and the ledger hold ids.  The two std::priority_queue members    *)
(* are binary heaps stored in a vector; they are modelled as sequences     *)
(* maintained by the push_heap / pop_heap algorithms of libstdc++, so the  *)
(* order in which entries with equivalent keys surface is the one the      *)
(* build produces.  Prices are integers (ticks), 0 stands for 0.0.         *)
(* Quantities are uint32_t in the code; the model subtracts on Int, so a   *)
(* negative remaining quantity stands for a wrapped (underflowed) one.     *)
(* Every public operation is one atomic action: the engine is              *)
(* single-threaded and each call runs to completion.  The clock may return *)
(* the same time_point twice; it is taken never to run backwards.          *)
(* SpecLoop is the same program with the two add calls taken one loop step *)
(* at a time, for the claims about the loops themselves.                   *)
(* Definitions marked "Variant" are faulty versions of the definition that *)
(* follows them; no specification uses them.                               *)
(***************************************************************************)
EXTENDS Integers, Sequences, FiniteSets, TLC

\* Bounds of the model.
MaxOrders == 3      \* orders created in one run (limit and market together)
MaxPrice == 2       \* limit prices are 1..MaxPrice
MaxQty == 2         \* quantities are 0..MaxQty
TimeMaxOrders == 5  \* orders created in one run of SpecTime
AnyPriceMaxOrders == 2  \* orders created in one run of SpecAnyPrice
MaxDepth == 2       \* print_book is asked for 1..MaxDepth levels
LoopMaxOrders == 3  \* orders created in one run of SpecLoop

VARIABLES
    orders,         \* the Order objects ever constructed, by id
    buy_orders,     \* OrderBook::buy_orders, the heap's vector (ids)
    sell_orders,    \* OrderBook::sell_orders, the heap's vector (ids)
    order_map,      \* OrderBook::order_map, the set of its keys
    trades,         \* OrderBook::trades
    next_order_id,  \* OrderBook::next_order_id
    clock,          \* last value read from high_resolution_clock::now()
    ret,            \* the last public call and what it returned
    cancelled_ids,  \* history: ids for which cancel_order has returned true
    ref,            \* the reference engine run on the same calls
    call            \* SpecLoop: the add call in progress, its position and locals

vars == <<orders, buy_orders, sell_orders, order_map, trades, next_order_id,
          clock, ret, cancelled_ids, ref, call>>

Sides == {"BUY", "SELL"}
Prices == 1..MaxPrice
Quantities == 0..MaxQty

\* struct Order, as built by its constructor: remaining_quantity = quantity.
Order(id, side, type, price, quantity, ts) ==
    [id |-> id, side |-> side, type |-> type, price |-> price,
     quantity |-> quantity, remaining_quantity |-> quantity, timestamp |-> ts]

\* struct Trade (its timestamp is never read and is left out).
Trade(buyer_id, seller_id, price, quantity) ==
    [buyer_id |-> buyer_id, seller_id |-> seller_id, price |-> price,
     quantity |-> quantity]

\* Variant: the larger of the two quantities is traded.
std_min_Max(a, b) == IF b < a THEN a ELSE b

std_min(a, b) == IF b < a THEN b ELSE a

-----------------------------------------------------------------------------
\* The comparators: Comp(a, b) means a has LOWER priority than b.

BuyOrderComparator(o, a, b) ==
    IF o[a].price # o[b].price
    THEN o[a].price < o[b].price
    ELSE o[a].timestamp > o[b].timestamp

\* Variant: asks ordered like bids, highest price first.
SellOrderComparator_Inverted(o, a, b) ==
    IF o[a].price # o[b].price
    THEN o[a].price < o[b].price
    ELSE o[a].timestamp > o[b].timestamp

SellOrderComparator(o, a, b) ==
    IF o[a].price # o[b].price
    THEN o[a].price > o[b].price
    ELSE o[a].timestamp > o[b].timestamp

Comp(o, side, a, b) ==
    IF side = "BUY" THEN BuyOrderComparator(o, a, b)
    ELSE SellOrderComparator(o, a, b)

-----------------------------------------------------------------------------
\* std::priority_queue over a vector.  Indices are 0-based as in the
\* library; first[i + 1] is the library's first[i].

RECURSIVE push_heap(_, _, _, _, _, _)
push_heap(o, side, first, holeIndex, topIndex, value) ==
    LET parent == (holeIndex - 1) \div 2 IN
    IF holeIndex > topIndex /\ Comp(o, side, first[parent + 1], value)
    THEN push_heap(o, side, [first EXCEPT ![holeIndex + 1] = first[parent + 1]],
                   parent, topIndex, value)
    ELSE [first EXCEPT ![holeIndex + 1] = value]

RECURSIVE AdjustLoop(_, _, _, _, _, _)
AdjustLoop(o, side, first, holeIndex, secondChild, len) ==
    IF secondChild < (len - 1) \div 2
    THEN LET right == 2 * (secondChild + 1)
             child == IF Comp(o, side, first[right + 1], first[right])
                      THEN right - 1 ELSE right
         IN AdjustLoop(o, side, [first EXCEPT ![holeIndex + 1] = first[child + 1]],
                       child, child, len)
    ELSE [first |-> first, holeIndex |-> holeIndex, secondChild |-> secondChild]

adjust_heap(o, side, first, len, value) ==
    LET a == AdjustLoop(o, side, first, 0, 0, len)
        last == 2 * (a.secondChild + 1)
        b == IF len % 2 = 0 /\ a.secondChild = (len - 2) \div 2
             THEN [first |-> [a.first EXCEPT ![a.holeIndex + 1] = a.first[last]],
                   holeIndex |-> last - 1]
             ELSE [first |-> a.first, holeIndex |-> a.holeIndex]
    IN push_heap(o, side, b.first, b.holeIndex, 0, value)

\* priority_queue::push: push_back, then push_heap.
PQPush(o, side, q, v) == push_heap(o, side, Append(q, v), Len(q), 0, v)

\* priority_queue::pop: pop_heap, then pop_back.  Only called on q # <<>>.
PQPop(o, side, q) ==
    IF Len(q) <= 1 THEN <<>>
    ELSE adjust_heap(o, side, SubSeq(q, 1, Len(q) - 1), Len(q) - 1, q[Len(q)])

\* priority_queue::top.
PQTop(q) == q[1]

-----------------------------------------------------------------------------
\* The book as a record, threaded through the loops of one call.

Book == [orders |-> orders, buy_orders |-> buy_orders,
         sell_orders |-> sell_orders, order_map |-> order_map,
         trades |-> trades]

\* Variant: an entry with one unit left is evicted as well.
RECURSIVE CleanQueue_LastUnit(_, _, _)
CleanQueue_LastUnit(o, side, q) ==
    IF q # <<>> /\ o[PQTop(q)].remaining_quantity <= 1
    THEN CleanQueue_LastUnit(o, side, PQPop(o, side, q))
    ELSE q

RECURSIVE CleanQueue(_, _, _)
CleanQueue(o, side, q) ==
    IF q # <<>> /\ o[PQTop(q)].remaining_quantity = 0
    THEN CleanQueue(o, side, PQPop(o, side, q))
    ELSE q

clean_empty_orders(st) ==
    [st EXCEPT !.buy_orders = CleanQueue(st.orders, "BUY", @),
               !.sell_orders = CleanQueue(st.orders, "SELL", @)]

\* Variant: the trade takes the incoming order's price.
Execute_TakerPrice(st, incoming, rest, buyer, seller) ==
    LET trade_quantity == std_min(st.orders[incoming].remaining_quantity,
                                  st.orders[rest].remaining_quantity)
        o1 == [st.orders EXCEPT
                 ![incoming].remaining_quantity = @ - trade_quantity,
                 ![rest].remaining_quantity = @ - trade_quantity]
    IN [st EXCEPT
          !.trades = Append(@, Trade(buyer, seller, st.orders[incoming].price,
                                     trade_quantity)),
          !.orders = o1,
          !.order_map = IF o1[rest].remaining_quantity = 0
                        THEN @ \ {rest} ELSE @]

\* One execution between the incoming order and the resting order `rest`:
\* the trade is appended, both remaining quantities are decremented, and an
\* exhausted resting order is erased from the ledger.
Execute(st, incoming, rest, buyer, seller) ==
    LET trade_quantity == std_min(st.orders[incoming].remaining_quantity,
                                  st.orders[rest].remaining_quantity)
        o1 == [st.orders EXCEPT
                 ![incoming].remaining_quantity = @ - trade_quantity,
                 ![rest].remaining_quantity = @ - trade_quantity]
    IN [st EXCEPT
          !.trades = Append(@, Trade(buyer, seller, st.orders[rest].price,
                                     trade_quantity)),
          !.orders = o1,
          !.order_map = IF o1[rest].remaining_quantity = 0
                        THEN @ \ {rest} ELSE @]

\* "Check if prices cross": the tests that end the two limit loops.
\* Variant: a buy at the ask's price does not cross.
BuyStops_Le(o, buy_order, best_sell) ==
    o[buy_order].price <= o[best_sell].price

BuyStops(o, buy_order, best_sell) ==
    o[buy_order].price < o[best_sell].price

\* Variant: a sell at the bid's price does not cross.
SellStops_Ge(o, sell_order, best_buy) ==
    o[sell_order].price >= o[best_buy].price

\* Variant: the test is inverted, a sell stops when its price is lower.
SellStops_Lt(o, sell_order, best_buy) ==
    o[sell_order].price < o[best_buy].price

SellStops(o, sell_order, best_buy) ==
    o[sell_order].price > o[best_buy].price

RECURSIVE match_buy_order(_, _)
match_buy_order(st, buy_order) ==
    IF st.orders[buy_order].remaining_quantity > 0 /\ st.sell_orders # <<>>
    THEN LET c == clean_empty_orders(st) IN
         IF c.sell_orders = <<>> THEN c
         ELSE LET best_sell == PQTop(c.sell_orders) IN
              IF c.orders[best_sell].remaining_quantity = 0
              THEN match_buy_order(c, buy_order)
              ELSE IF BuyStops(c.orders, buy_order, best_sell)
              THEN c
              ELSE match_buy_order(
                       Execute(c, buy_order, best_sell, buy_order, best_sell),
                       buy_order)
    ELSE st

RECURSIVE match_sell_order(_, _)
match_sell_order(st, sell_order) ==
    IF st.orders[sell_order].remaining_quantity > 0 /\ st.buy_orders # <<>>
    THEN LET c == clean_empty_orders(st) IN
         IF c.buy_orders = <<>> THEN c
         ELSE LET best_buy == PQTop(c.buy_orders) IN
              IF c.orders[best_buy].remaining_quantity = 0
              THEN match_sell_order(c, sell_order)
              ELSE IF SellStops(c.orders, sell_order, best_buy)
              THEN c
              ELSE match_sell_order(
                       Execute(c, sell_order, best_buy, best_buy, sell_order),
                       sell_order)
    ELSE st

\* Variant: the first trade of the log is copied instead of the last.
RecordTrade_Front(st) ==
    [st EXCEPT !.order_trades = Append(@, st.trades[1])]

\* order_trades.push_back(trades.back()) in add_market_order.
RecordTrade(st) ==
    [st EXCEPT !.order_trades = Append(@, st.trades[Len(st.trades)])]

\* The two loops of add_market_order: no price test.
RECURSIVE MarketBuyLoop(_, _)
MarketBuyLoop(st, order) ==
    IF st.orders[order].remaining_quantity > 0 /\ st.sell_orders # <<>>
    THEN LET c == clean_empty_orders(st) IN
         IF c.sell_orders = <<>> THEN c
         ELSE LET best_sell == PQTop(c.sell_orders) IN
              IF c.orders[best_sell].remaining_quantity = 0
              THEN MarketBuyLoop(c, order)
              ELSE MarketBuyLoop(
                       RecordTrade(Execute(c, order, best_sell, order, best_sell)),
                       order)
    ELSE st

RECURSIVE MarketSellLoop(_, _)
MarketSellLoop(st, order) ==
    IF st.orders[order].remaining_quantity > 0 /\ st.buy_orders # <<>>
    THEN LET c == clean_empty_orders(st) IN
         IF c.buy_orders = <<>> THEN c
         ELSE LET best_buy == PQTop(c.buy_orders) IN
              IF c.orders[best_buy].remaining_quantity = 0
              THEN MarketSellLoop(c, order)
              ELSE MarketSellLoop(
                       RecordTrade(Execute(c, order, best_buy, best_buy, order)),
                       order)
    ELSE st

\* The push at the end of add_limit_order.
Rest(st, side, order) ==
    IF st.orders[order].remaining_quantity > 0
    THEN IF side = "BUY"
         THEN [st EXCEPT !.buy_orders = PQPush(st.orders, "BUY", @, order)]
         ELSE [st EXCEPT !.sell_orders = PQPush(st.orders, "SELL", @, order)]
    ELSE st

\* The body of add_limit_order after the Order is constructed.
add_limit_order(st, id, side, price, quantity, ts) ==
    LET s0 == [st EXCEPT
                 !.orders = (id :> Order(id, side, "LIMIT", price, quantity, ts)) @@ @,
                 !.order_map = @ \cup {id}]
    IN IF side = "BUY"
       THEN Rest(match_buy_order(s0, id), side, id)
       ELSE Rest(match_sell_order(s0, id), side, id)

\* The start of add_market_order: the Order is constructed and the local
\* vector order_trades is empty.
MarketStart(st, id, side, quantity, ts) ==
    [orders |-> (id :> Order(id, side, "MARKET", 0, quantity, ts)) @@ st.orders,
     buy_orders |-> st.buy_orders, sell_orders |-> st.sell_orders,
     order_map |-> st.order_map, trades |-> st.trades,
     order_trades |-> <<>>]

\* Variant: the unfilled remainder of a market order is pushed.
add_market_order_Rests(st, id, side, quantity, ts) ==
    LET s0 == MarketStart(st, id, side, quantity, ts)
    IN IF side = "BUY" THEN Rest(MarketBuyLoop(s0, id), side, id)
       ELSE Rest(MarketSellLoop(s0, id), side, id)

\* The body of add_market_order: the order is never put in order_map.
add_market_order(st, id, side, quantity, ts) ==
    LET s0 == MarketStart(st, id, side, quantity, ts)
    IN IF side = "BUY" THEN MarketBuyLoop(s0, id) ELSE MarketSellLoop(s0, id)

\* get_best_bid / get_best_ask: pop a copy of the queue down to the first
\* entry with remaining_quantity > 0; 0 (0.0) when there is none.
RECURSIVE BestOf(_, _, _)
BestOf(o, side, q) ==
    IF q = <<>> THEN 0
    ELSE IF o[PQTop(q)].remaining_quantity > 0 THEN o[PQTop(q)].price
    ELSE BestOf(o, side, PQPop(o, side, q))

get_best_bid == BestOf(orders, "BUY", buy_orders)
get_best_ask == BestOf(orders, "SELL", sell_orders)

-----------------------------------------------------------------------------
\* print_book: the two aggregations by price level.  A std::map<double,
\* uint32_t> is a function from the prices it holds to quantities.

\* levels[price] += remaining_quantity.
AddLevel(levels, price, quantity) ==
    IF price \in DOMAIN levels
    THEN [levels EXCEPT ![price] = @ + quantity]
    ELSE (price :> quantity) @@ levels

\* The ask loop: its guard reads asks.size(), and asks is filled only after
\* the loop.
RECURSIVE AskLoop(_, _, _, _, _)
AskLoop(o, temp_sell, sell_levels, asks, depth) ==
    IF temp_sell # <<>> /\ Len(asks) < depth
    THEN LET order == PQTop(temp_sell)
             rest == PQPop(o, "SELL", temp_sell)
         IN AskLoop(o, rest,
                    IF o[order].remaining_quantity > 0
                    THEN AddLevel(sell_levels, o[order].price,
                                  o[order].remaining_quantity)
                    ELSE sell_levels,
                    asks, depth)
    ELSE sell_levels

\* The ask levels print_book(depth) prints (asks holds every entry of
\* sell_levels).
AskDepth(depth) == AskLoop(orders, sell_orders, <<>>, <<>>, depth)

\* The bid loop: count is raised when a price is first seen, and the guard
\* reads count.
RECURSIVE BidLoop(_, _, _, _, _)
BidLoop(o, temp_buy, buy_levels, count, depth) ==
    IF temp_buy # <<>> /\ count < depth
    THEN LET order == PQTop(temp_buy)
             rest == PQPop(o, "BUY", temp_buy)
         IN IF o[order].remaining_quantity > 0
            THEN BidLoop(o, rest,
                         AddLevel(buy_levels, o[order].price,
                                  o[order].remaining_quantity),
                         IF o[order].price \in DOMAIN buy_levels
                         THEN count ELSE count + 1,
                         depth)
            ELSE BidLoop(o, rest, buy_levels, count, depth)
    ELSE buy_levels

\* The bid levels print_book(depth) prints.
BidDepth(depth) == BidLoop(orders, buy_orders, <<>>, 0, depth)

-----------------------------------------------------------------------------
\* The reference engine the program is compared with: each side is a list
\* of its live orders sorted by price, then by arrival (the order id); an
\* order leaves its list the moment its remaining quantity reaches 0 or it
\* is cancelled.  It is an observer: the program's actions never read it.

Better(side, p, q) == IF side = "SELL" THEN p < q ELSE p > q
Opposite(side) == IF side = "BUY" THEN "SELL" ELSE "BUY"

RefInit == [bids |-> <<>>, asks |-> <<>>, trades |-> <<>>]

RefOrder(id, price, remaining) ==
    [id |-> id, price |-> price, remaining |-> remaining]

RefList(r, side) == IF side = "BUY" THEN r.bids ELSE r.asks

RefSet(r, side, list) ==
    IF side = "BUY" THEN [r EXCEPT !.bids = list] ELSE [r EXCEPT !.asks = list]

\* The sorted list with o added: before the first order of a worse price,
\* behind every order of its own price.
RECURSIVE RefInsert(_, _, _)
RefInsert(side, list, o) ==
    IF list = <<>> THEN <<o>>
    ELSE IF Better(side, o.price, Head(list).price) THEN <<o>> \o list
    ELSE <<Head(list)>> \o RefInsert(side, Tail(list), o)

RefCrosses(side, priced, price, resting) ==
    \/ ~priced
    \/ IF side = "BUY" THEN price >= resting ELSE price <= resting

\* Match the incoming order against the head of the opposite list while it
\* crosses; a market order (priced = FALSE) crosses every price.
RECURSIVE RefMatch(_, _, _, _, _, _)
RefMatch(r, id, side, priced, price, remaining) ==
    LET opp == RefList(r, Opposite(side))
    IN IF \/ remaining = 0
          \/ opp = <<>>
          \/ ~RefCrosses(side, priced, price, Head(opp).price)
       THEN [ref |-> r, remaining |-> remaining]
       ELSE LET rest == Head(opp)
                q == IF remaining < rest.remaining
                     THEN remaining ELSE rest.remaining
                t == IF side = "BUY"
                     THEN Trade(id, rest.id, rest.price, q)
                     ELSE Trade(rest.id, id, rest.price, q)
                left == IF rest.remaining = q
                        THEN Tail(opp)
                        ELSE <<[rest EXCEPT !.remaining = @ - q]>> \o Tail(opp)
                r2 == [RefSet(r, Opposite(side), left)
                          EXCEPT !.trades = Append(@, t)]
            IN RefMatch(r2, id, side, priced, price, remaining - q)

RefAddLimit(side, price, quantity) ==
    LET m == RefMatch(ref, next_order_id, side, TRUE, price, quantity)
    IN ref' = IF m.remaining > 0
              THEN RefSet(m.ref, side,
                          RefInsert(side, RefList(m.ref, side),
                                    RefOrder(next_order_id, price, m.remaining)))
              ELSE m.ref

RefAddMarket(side, quantity) ==
    ref' = RefMatch(ref, next_order_id, side, FALSE, 0, quantity).ref

RefCancel(order_id) ==
    ref' = [ref EXCEPT !.bids = SelectSeq(@, LAMBDA o : o.id # order_id),
                       !.asks = SelectSeq(@, LAMBDA o : o.id # order_id)]

-----------------------------------------------------------------------------
\* No call is in progress.
Idle == [pc |-> "idle"]

Init ==
    /\ orders = <<>>
    /\ buy_orders = <<>>
    /\ sell_orders = <<>>
    /\ order_map = {}
    /\ trades = <<>>
    /\ next_order_id = 1
    /\ clock = 0
    /\ ret = [op |-> "none"]
    /\ cancelled_ids = {}
    /\ ref = RefInit
    /\ call = Idle

Install(st) ==
    /\ orders' = st.orders
    /\ buy_orders' = st.buy_orders
    /\ sell_orders' = st.sell_orders
    /\ order_map' = st.order_map
    /\ trades' = st.trades

\* high_resolution_clock::now(): not before the last reading, possibly equal.
Now == {clock, clock + 1}

AddLimitOrder(side, price, quantity, ts) ==
    /\ Install(add_limit_order(Book, next_order_id, side, price, quantity, ts))
    /\ next_order_id' = next_order_id + 1
    /\ clock' = ts
    /\ ret' = [op |-> "add_limit_order", id |-> next_order_id]
    /\ UNCHANGED cancelled_ids

\* Variant: a market order does not advance next_order_id.
AddMarketOrder_SameId(side, quantity, ts) ==
    /\ LET st == add_market_order(Book, next_order_id, side, quantity, ts) IN
       /\ Install(st)
       /\ ret' = [op |-> "add_market_order", id |-> next_order_id,
                  order_trades |-> st.order_trades]
    /\ next_order_id' = next_order_id
    /\ clock' = ts
    /\ UNCHANGED cancelled_ids

AddMarketOrder(side, quantity, ts) ==
    /\ LET st == add_market_order(Book, next_order_id, side, quantity, ts) IN
       /\ Install(st)
       /\ ret' = [op |-> "add_market_order", id |-> next_order_id,
                  order_trades |-> st.order_trades]
    /\ next_order_id' = next_order_id + 1
    /\ clock' = ts
    /\ UNCHANGED cancelled_ids

\* Variant: the cancelled order stays in order_map.
CancelOrder_NoErase(order_id) ==
    /\ IF order_id \in order_map
       THEN /\ orders' = [orders EXCEPT ![order_id].remaining_quantity = 0]
            /\ order_map' = order_map
            /\ ret' = [op |-> "cancel_order", id |-> order_id, result |-> TRUE]
            /\ cancelled_ids' = cancelled_ids \cup {order_id}
       ELSE /\ ret' = [op |-> "cancel_order", id |-> order_id, result |-> FALSE]
            /\ UNCHANGED <<orders, order_map, cancelled_ids>>
    /\ UNCHANGED <<buy_orders, sell_orders, trades, next_order_id, clock>>

\* Variant: the cancelled order keeps its remaining quantity.
CancelOrder_NoZero(order_id) ==
    /\ IF order_id \in order_map
       THEN /\ orders' = orders
            /\ order_map' = order_map \ {order_id}
            /\ ret' = [op |-> "cancel_order", id |-> order_id, result |-> TRUE]
            /\ cancelled_ids' = cancelled_ids \cup {order_id}
       ELSE /\ ret' = [op |-> "cancel_order", id |-> order_id, result |-> FALSE]
            /\ UNCHANGED <<orders, order_map, cancelled_ids>>
    /\ UNCHANGED <<buy_orders, sell_orders, trades, next_order_id, clock>>

CancelOrder(order_id) ==
    /\ IF order_id \in order_map
       THEN /\ orders' = [orders EXCEPT ![order_id].remaining_quantity = 0]
            /\ order_map' = order_map \ {order_id}
            /\ ret' = [op |-> "cancel_order", id |-> order_id, result |-> TRUE]
            /\ cancelled_ids' = cancelled_ids \cup {order_id}
       ELSE /\ ret' = [op |-> "cancel_order", id |-> order_id, result |-> FALSE]
            /\ UNCHANGED <<orders, order_map, cancelled_ids>>
    /\ UNCHANGED <<buy_orders, sell_orders, trades, next_order_id, clock>>

Next ==
    \/ /\ next_order_id <= MaxOrders
       /\ \E side \in Sides, price \in Prices, quantity \in Quantities, ts \in Now :
             AddLimitOrder(side, price, quantity, ts)
                /\ RefAddLimit(side, price, quantity)
                /\ UNCHANGED call
    \/ /\ next_order_id <= MaxOrders
       /\ \E side \in Sides, quantity \in Quantities, ts \in Now :
             AddMarketOrder(side, quantity, ts)
                /\ RefAddMarket(side, quantity)
                /\ UNCHANGED call
    \/ \E order_id \in 1..next_order_id :
          CancelOrder(order_id) /\ RefCancel(order_id) /\ UNCHANGED call

Spec == Init /\ [][Next]_vars

\* Runs of add_limit_order calls alone, long enough for four orders to rest
\* on one side before a fifth comes in.
NextTime ==
    /\ next_order_id <= TimeMaxOrders
    /\ \E side \in Sides, price \in Prices, quantity \in 1..MaxQty, ts \in Now :
          AddLimitOrder(side, price, quantity, ts)
             /\ RefAddLimit(side, price, quantity)
             /\ UNCHANGED call

SpecTime == Init /\ [][NextTime]_vars

\* Runs in which a limit price may also be 0 (0.0): add_limit_order takes
\* any double and tests nothing.
NextAnyPrice ==
    \/ /\ next_order_id <= AnyPriceMaxOrders
       /\ \E side \in Sides, price \in 0..MaxPrice, quantity \in Quantities,
             ts \in Now :
             AddLimitOrder(side, price, quantity, ts)
                /\ RefAddLimit(side, price, quantity)
                /\ UNCHANGED call
    \/ /\ next_order_id <= AnyPriceMaxOrders
       /\ \E side \in Sides, quantity \in Quantities, ts \in Now :
             AddMarketOrder(side, quantity, ts)
                /\ RefAddMarket(side, quantity)
                /\ UNCHANGED call
    \/ \E order_id \in 1..next_order_id :
          CancelOrder(order_id) /\ RefCancel(order_id) /\ UNCHANGED call

SpecAnyPrice == Init /\ [][NextAnyPrice]_vars

-----------------------------------------------------------------------------
\* The add calls one loop step at a time.  call.pc is the position of the
\* running call: "while" (a match loop's condition is about to be read),
\* "clean_buy" and "clean_sell" (the two loops of clean_empty_orders),
\* "body" (the rest of the iteration).  The four match loops have the same
\* shape; call.op and call.side tell them apart.

\* add_limit_order up to the call of match_buy_order / match_sell_order.
BeginLimit(side, price, quantity, ts) ==
    /\ call = Idle
    /\ orders' = (next_order_id :>
                     Order(next_order_id, side, "LIMIT", price, quantity, ts))
                 @@ orders
    /\ order_map' = order_map \cup {next_order_id}
    /\ next_order_id' = next_order_id + 1
    /\ clock' = ts
    /\ call' = [pc |-> "while", op |-> "add_limit_order", id |-> next_order_id,
                side |-> side, order_trades |-> <<>>]
    /\ UNCHANGED <<buy_orders, sell_orders, trades, ret, cancelled_ids>>

\* add_market_order up to its loop.
BeginMarket(side, quantity, ts) ==
    /\ call = Idle
    /\ LET s0 == MarketStart(Book, next_order_id, side, quantity, ts)
       IN /\ orders' = s0.orders
          /\ call' = [pc |-> "while", op |-> "add_market_order",
                      id |-> next_order_id, side |-> side,
                      order_trades |-> s0.order_trades]
    /\ next_order_id' = next_order_id + 1
    /\ clock' = ts
    /\ UNCHANGED <<buy_orders, sell_orders, order_map, trades, ret,
                   cancelled_ids>>

\* The queue the running call matches against.
Against == IF call.side = "BUY" THEN sell_orders ELSE buy_orders

\* The loop is left: add_limit_order pushes what remains and returns the
\* id, add_market_order returns order_trades.
Return ==
    /\ Install(IF call.op = "add_limit_order"
               THEN Rest(Book, call.side, call.id) ELSE Book)
    /\ ret' = IF call.op = "add_limit_order"
              THEN [op |-> "add_limit_order", id |-> call.id]
              ELSE [op |-> "add_market_order", id |-> call.id,
                    order_trades |-> call.order_trades]
    /\ call' = Idle

\* The condition of the while loop.
StepWhile ==
    /\ call.pc = "while"
    /\ IF orders[call.id].remaining_quantity > 0 /\ Against # <<>>
       THEN /\ call' = [call EXCEPT !.pc = "clean_buy"]
            /\ UNCHANGED <<orders, buy_orders, sell_orders, order_map, trades,
                           ret>>
       ELSE Return
    /\ UNCHANGED <<next_order_id, clock, cancelled_ids, ref>>

\* One reading of the condition of the first loop of clean_empty_orders,
\* and the pop if it holds.
StepCleanBuy ==
    /\ call.pc = "clean_buy"
    /\ IF buy_orders # <<>> /\ orders[PQTop(buy_orders)].remaining_quantity = 0
       THEN /\ buy_orders' = PQPop(orders, "BUY", buy_orders)
            /\ UNCHANGED call
       ELSE /\ call' = [call EXCEPT !.pc = "clean_sell"]
            /\ UNCHANGED buy_orders
    /\ UNCHANGED <<orders, sell_orders, order_map, trades, next_order_id,
                   clock, ret, cancelled_ids, ref>>

\* Variant: the second loop of clean_empty_orders pops nothing.
StepCleanSell_NoPop ==
    /\ call.pc = "clean_sell"
    /\ call' = [call EXCEPT !.pc = "body"]
    /\ UNCHANGED <<orders, buy_orders, sell_orders, order_map, trades,
                   next_order_id, clock, ret, cancelled_ids, ref>>

\* The same for the second loop of clean_empty_orders.
StepCleanSell ==
    /\ call.pc = "clean_sell"
    /\ IF sell_orders # <<>> /\ orders[PQTop(sell_orders)].remaining_quantity = 0
       THEN /\ sell_orders' = PQPop(orders, "SELL", sell_orders)
            /\ UNCHANGED call
       ELSE /\ call' = [call EXCEPT !.pc = "body"]
            /\ UNCHANGED sell_orders
    /\ UNCHANGED <<orders, buy_orders, order_map, trades, next_order_id,
                   clock, ret, cancelled_ids, ref>>

\* The iteration after clean_empty_orders: break on an empty queue,
\* continue on an exhausted top, break on the price test (limit orders),
\* or trade.
StepBody ==
    /\ call.pc = "body"
    /\ IF Against = <<>> THEN Return
       ELSE LET best == PQTop(Against) IN
            IF orders[best].remaining_quantity = 0
            THEN /\ call' = [call EXCEPT !.pc = "while"]
                 /\ UNCHANGED <<orders, buy_orders, sell_orders, order_map,
                                trades, ret>>
            ELSE IF /\ call.op = "add_limit_order"
                    /\ IF call.side = "BUY"
                       THEN BuyStops(orders, call.id, best)
                       ELSE SellStops(orders, call.id, best)
            THEN Return
            ELSE LET s0 == [orders |-> orders, buy_orders |-> buy_orders,
                            sell_orders |-> sell_orders,
                            order_map |-> order_map, trades |-> trades,
                            order_trades |-> call.order_trades]
                     s1 == IF call.side = "BUY"
                           THEN Execute(s0, call.id, best, call.id, best)
                           ELSE Execute(s0, call.id, best, best, call.id)
                     s2 == IF call.op = "add_market_order"
                           THEN RecordTrade(s1) ELSE s1
                 IN /\ Install(s2)
                    /\ call' = [call EXCEPT !.pc = "while",
                                            !.order_trades = s2.order_trades]
                    /\ UNCHANGED ret
    /\ UNCHANGED <<next_order_id, clock, cancelled_ids, ref>>

\* The running call takes its next step.
LoopStep == StepWhile \/ StepCleanBuy \/ StepCleanSell \/ StepBody

\* The clock is read once per call; here it advances between calls (equal
\* readings are the matter of Spec and SpecTime).
NextLoop ==
    \/ /\ next_order_id <= LoopMaxOrders
       /\ \E side \in Sides, price \in Prices, quantity \in Quantities :
             BeginLimit(side, price, quantity, clock + 1)
                /\ RefAddLimit(side, price, quantity)
    \/ /\ next_order_id <= LoopMaxOrders
       /\ \E side \in Sides, quantity \in Quantities :
             BeginMarket(side, quantity, clock + 1)
                /\ RefAddMarket(side, quantity)
    \/ /\ call = Idle
       /\ \E order_id \in 1..next_order_id :
             CancelOrder(order_id) /\ RefCancel(order_id) /\ UNCHANGED call
    \/ StepWhile
    \/ StepCleanBuy
    \/ StepCleanSell
    \/ StepBody

\* A call that has begun keeps running: the engine has one thread and
\* nothing suspends it.
SpecLoop == Init /\ [][NextLoop]_vars /\ WF_vars(LoopStep)

-----------------------------------------------------------------------------
\* Vocabulary of the properties.

Range(q) == {q[i] : i \in 1..Len(q)}

Queue(side) == IF side = "BUY" THEN buy_orders ELSE sell_orders

\* The orders resting on a side with remaining_quantity > 0.
ActiveResting(side) ==
    {id \in Range(Queue(side)) : orders[id].remaining_quantity > 0}

Max(S) == CHOOSE x \in S : \A y \in S : y <= x
Min(S) == CHOOSE x \in S : \A y \in S : x <= y

\* In a step: the order the call admits, the trades the call appends, and
\* the resting party of such a trade.
Incoming == next_order_id
NewTrades == SubSeq(trades', Len(trades) + 1, Len(trades'))
Maker(t) == IF t.buyer_id = Incoming THEN t.seller_id ELSE t.buyer_id

IsAdd(r) == r.op \in {"add_limit_order", "add_market_order"}
IsCancel(r) == r.op = "cancel_order"

\* The trades of the log that name an order, and their total quantity.
RECURSIVE TradedQty(_, _, _)
TradedQty(ts, id, n) ==
    IF n = 0 THEN 0
    ELSE TradedQty(ts, id, n - 1)
         + (IF id \in {ts[n].buyer_id, ts[n].seller_id} THEN ts[n].quantity ELSE 0)

-----------------------------------------------------------------------------
\* C1: the book is never crossed between calls: when both sides hold an
\* active resting order, every active bid is priced strictly below every
\* active ask, and get_best_bid() < get_best_ask().
C1_NotCrossed ==
    (ActiveResting("BUY") # {} /\ ActiveResting("SELL") # {}) =>
        /\ \A b \in ActiveResting("BUY"), a \in ActiveResting("SELL") :
              orders[b].price < orders[a].price
        /\ get_best_bid < get_best_ask

\* Both sides are active, and a limit order has traded and rested its rest.
C1_Witness ==
    /\ ActiveResting("BUY") # {} /\ ActiveResting("SELL") # {}
    /\ \E id \in ActiveResting("BUY") \cup ActiveResting("SELL") :
          orders[id].remaining_quantity < orders[id].quantity

\* C2: every trade a call appends carries the price of the order that was
\* resting, active, in the opposite queue when the call began (a limit
\* order), never a price taken from the incoming order.
C2_MakerPrice ==
    [][\A j \in 1..Len(NewTrades) :
          LET t == NewTrades[j]
              m == Maker(t)
          IN /\ Incoming \in {t.buyer_id, t.seller_id}
             /\ t.buyer_id # t.seller_id
             /\ m \in ActiveResting(IF t.buyer_id = Incoming THEN "SELL" ELSE "BUY")
             /\ orders[m].type = "LIMIT"
             /\ t.price = orders[m].price
             /\ t.price # 0]_vars

\* A limit taker has traded at a price that is not its own, and a market
\* order has traded.
C2_Witness ==
    /\ \E i \in 1..Len(trades) :
          LET tk == IF trades[i].buyer_id > trades[i].seller_id
                    THEN trades[i].buyer_id ELSE trades[i].seller_id
          IN orders[tk].type = "LIMIT" /\ orders[tk].price # trades[i].price
    /\ \E i \in 1..Len(trades) :
          "MARKET" \in {orders[trades[i].buyer_id].type,
                        orders[trades[i].seller_id].type}

\* C3: cancel_order on an unknown id, or on an order that is terminal
\* (remaining_quantity 0 after a cancellation or a complete fill), returns
\* false and changes nothing.
Terminal(id) ==
    /\ orders[id].remaining_quantity = 0
    /\ \/ id \in cancelled_ids
       \/ /\ orders[id].quantity > 0
          /\ TradedQty(trades, id, Len(trades)) = orders[id].quantity

C3_CancelTerminalNoEffect ==
    [][(IsCancel(ret') /\ (ret'.id \notin DOMAIN orders \/ Terminal(ret'.id))) =>
          /\ ret'.result = FALSE
          /\ UNCHANGED <<orders, buy_orders, sell_orders, order_map, trades,
                         next_order_id>>]_vars

\* C4: cancel_order on a limit order resting with remaining_quantity > 0
\* returns true and zeroes its remaining quantity; cancel_order on an id for
\* which it has returned true before returns false.
C4_CancelOnce ==
    [][IsCancel(ret') =>
          /\ (ret'.id \in ActiveResting("BUY") \cup ActiveResting("SELL")) =>
                (ret'.result = TRUE /\ orders'[ret'.id].remaining_quantity = 0)
          /\ (ret'.id \in cancelled_ids) => ret'.result = FALSE]_vars

\* A cancel has just failed on a limit order that was cancelled, while it
\* rested, before other calls were made.
C4_Witness ==
    /\ IsCancel(ret) /\ ret.result = FALSE
    /\ ret.id \in cancelled_ids
    /\ ret.id \in Range(buy_orders) \cup Range(sell_orders)
    /\ next_order_id > ret.id + 1

\* The best price of a side computed over the resting orders that were
\* never cancelled (0 when there is none).
BestWithoutCancelled(side) ==
    LET S == {orders[id].price : id \in ActiveResting(side) \ cancelled_ids}
    IN IF S = {} THEN 0 ELSE IF side = "BUY" THEN Max(S) ELSE Min(S)

\* C5: an order for which cancel_order returned true is on neither side of
\* any trade appended later, and get_best_bid / get_best_ask are what they
\* would be without it, wherever its entry sits in the queue.
C5_CancelledIsDead ==
    /\ [](/\ get_best_bid = BestWithoutCancelled("BUY")
          /\ get_best_ask = BestWithoutCancelled("SELL"))
    /\ [][\A j \in 1..Len(NewTrades) :
             /\ NewTrades[j].buyer_id \notin cancelled_ids
             /\ NewTrades[j].seller_id \notin cancelled_ids]_vars

\* A cancelled order still sits in a queue below a live entry, and the call
\* that has just returned traded on that side.
C5_Witness ==
    /\ IsAdd(ret)
    /\ trades # <<>>
    /\ ret.id \in {trades[Len(trades)].buyer_id, trades[Len(trades)].seller_id}
    /\ \E side \in Sides : \E i \in 2..Len(Queue(side)) :
          /\ Queue(side)[i] \in cancelled_ids
          /\ orders[Queue(side)[1]].remaining_quantity > 0
          /\ Queue(side)[1] \in {trades[Len(trades)].buyer_id,
                                 trades[Len(trades)].seller_id}

-----------------------------------------------------------------------------
\* C6: for every order, 0 <= remaining_quantity <= quantity, the total
\* quantity of the trades naming it is at most its quantity, and no step
\* increases its remaining quantity.
C6_Quantities ==
    /\ [](\A id \in DOMAIN orders :
             /\ 0 <= orders[id].remaining_quantity
             /\ orders[id].remaining_quantity <= orders[id].quantity
             /\ TradedQty(trades, id, Len(trades)) <= orders[id].quantity)
    /\ [][\A id \in DOMAIN orders :
             orders'[id].remaining_quantity <= orders[id].remaining_quantity]_vars

\* A limit order is partly filled, and a market order has traded.
C6_Witness ==
    /\ \E id \in DOMAIN orders :
          /\ orders[id].type = "LIMIT"
          /\ 0 < orders[id].remaining_quantity
          /\ orders[id].remaining_quantity < orders[id].quantity
          /\ TradedQty(trades, id, Len(trades))
                = orders[id].quantity - orders[id].remaining_quantity
    /\ \E id \in DOMAIN orders :
          /\ orders[id].type = "MARKET"
          /\ TradedQty(trades, id, Len(trades)) > 0

\* C7: a market order is in neither queue and not in the ledger once its
\* call has returned, and no later call appends a trade naming it.
C7_MarketNeverRests ==
    /\ [](\A id \in DOMAIN orders :
             orders[id].type = "MARKET" =>
                id \notin Range(buy_orders) \cup Range(sell_orders) \cup order_map)
    /\ [][\A j \in 1..Len(NewTrades) :
             \A id \in {NewTrades[j].buyer_id, NewTrades[j].seller_id} \ {Incoming} :
                orders[id].type = "LIMIT"]_vars

\* A market order was left with an unfilled remainder, and two later orders
\* have traded with each other.
C7_Witness ==
    \E m \in DOMAIN orders :
       /\ orders[m].type = "MARKET"
       /\ orders[m].remaining_quantity > 0
       /\ \E i \in 1..Len(trades) :
             trades[i].buyer_id > m /\ trades[i].seller_id > m

\* C8: ids come from a counter that starts at 1: every add call returns the
\* counter's value, which no earlier order has, and advances it by one,
\* market orders included; cancel_order leaves the counter alone.
C8_OrderIds ==
    /\ [](/\ DOMAIN orders = 1..(next_order_id - 1)
          /\ \A id \in DOMAIN orders : orders[id].id = id)
    /\ [][/\ IsAdd(ret') =>
                /\ ret'.id = next_order_id
                /\ ret'.id \notin DOMAIN orders
                /\ \A id \in DOMAIN orders : id < ret'.id
                /\ next_order_id' = next_order_id + 1
                /\ DOMAIN orders' = DOMAIN orders \cup {ret'.id}
                /\ orders'[ret'.id].id = ret'.id
          /\ IsCancel(ret') => next_order_id' = next_order_id]_vars

\* A limit order got id 3 after a market order got id 2, with a successful
\* cancel made before it.
C8_Witness ==
    /\ ret.op = "add_limit_order" /\ ret.id = 3
    /\ orders[2].type = "MARKET"
    /\ cancelled_ids # {}

\* The quantity that the first n trades of ts took from the resting order r.
RECURSIVE MakerQty(_, _, _)
MakerQty(ts, r, n) ==
    IF n = 0 THEN 0
    ELSE MakerQty(ts, r, n - 1)
         + (IF Maker(ts[n]) = r THEN ts[n].quantity ELSE 0)

\* The side on which the resting party of a new trade rests.
MakerSide(t) == IF t.buyer_id = Incoming THEN "SELL" ELSE "BUY"

\* The resting orders of a side still active just before the j-th new trade.
ActiveBefore(side, j) ==
    {r \in ActiveResting(side) :
        orders[r].remaining_quantity - MakerQty(NewTrades, r, j - 1) > 0}

\* C9: the resting party of every trade is an active resting order of the
\* opposite side and none active at that moment has a strictly better
\* price; the trade prices of one incoming buy never decrease and those of
\* one incoming sell never increase.
C9_PricePriority ==
    [][\A j \in 1..Len(NewTrades) :
          LET t == NewTrades[j]
              m == Maker(t)
          IN /\ m \in ActiveBefore(MakerSide(t), j)
             /\ \A r \in ActiveBefore(MakerSide(t), j) :
                   ~Better(MakerSide(t), orders[r].price, orders[m].price)
             /\ j > 1 => ~Better(MakerSide(t), t.price, NewTrades[j - 1].price)]_vars

\* The call that has just returned traded twice, at two prices.
C9_Witness ==
    /\ IsAdd(ret)
    /\ Len(trades) >= 2
    /\ \A i \in {Len(trades) - 1, Len(trades)} :
          ret.id \in {trades[i].buyer_id, trades[i].seller_id}
    /\ trades[Len(trades) - 1].price # trades[Len(trades)].price

\* C10: the resting party of every trade is the earliest admitted (smallest
\* id) among the active resting orders of its side at its price.
C10_TimePriority ==
    [][\A j \in 1..Len(NewTrades) :
          LET t == NewTrades[j]
              m == Maker(t)
          IN \A r \in ActiveBefore(MakerSide(t), j) :
                orders[r].price = orders[m].price => m <= r]_vars

-----------------------------------------------------------------------------
\* The total remaining quantity of a set of orders.
RECURSIVE SumRemaining(_)
SumRemaining(S) ==
    IF S = {} THEN 0
    ELSE LET id == CHOOSE x \in S : TRUE
         IN orders[id].remaining_quantity + SumRemaining(S \ {id})

RECURSIVE SumQty(_, _)
SumQty(ts, n) == IF n = 0 THEN 0 ELSE SumQty(ts, n - 1) + ts[n].quantity

\* The active resting orders an incoming order can trade with: for a limit
\* order those whose price crosses its own, for a market order all.
Crossing(inc) ==
    {r \in ActiveResting(Opposite(inc.side)) :
        \/ inc.type = "MARKET"
        \/ inc.side = "BUY" /\ orders[r].price <= inc.price
        \/ inc.side = "SELL" /\ orders[r].price >= inc.price}

\* C11: the quantity an add call trades is the smaller of the incoming
\* quantity and the total remaining quantity of the active opposite orders
\* it crosses (all of them for a market order), as they stood before the call.
C11_FillsAvailable ==
    [][IsAdd(ret') =>
          LET inc == orders'[Incoming]
              liq == SumRemaining(Crossing(inc))
          IN SumQty(NewTrades, Len(NewTrades))
                = (IF inc.quantity < liq THEN inc.quantity ELSE liq)]_vars

\* A limit order has just traded everything it crossed and rests with the
\* remainder, opposite an order it did not cross.
C11_Witness ==
    /\ ret.op = "add_limit_order"
    /\ TradedQty(trades, ret.id, Len(trades)) > 0
    /\ orders[ret.id].remaining_quantity > 0
    /\ ActiveResting(Opposite(orders[ret.id].side)) # {}

\* C12: add_market_order returns the trades the call appended to the log,
\* in order; each names the market order on its own side; the result is
\* empty when the opposite side had no active order.
C12_MarketReturn ==
    [][ret'.op = "add_market_order" =>
          /\ ret'.id = Incoming
          /\ ret'.order_trades = NewTrades
          /\ \A j \in 1..Len(ret'.order_trades) :
                IF orders'[Incoming].side = "BUY"
                THEN ret'.order_trades[j].buyer_id = Incoming
                ELSE ret'.order_trades[j].seller_id = Incoming
          /\ ActiveResting(Opposite(orders'[Incoming].side)) = {}
                => ret'.order_trades = <<>>]_vars

\* A market order has just returned two trades, made with two resting
\* orders.
C12_Witness ==
    /\ ret.op = "add_market_order"
    /\ Len(ret.order_trades) = 2
    /\ ret.order_trades[1] # ret.order_trades[2]

-----------------------------------------------------------------------------
\* What get_best_bid / get_best_ask return for a side without entries.
NoOrders(side) == BestOf(orders, side, <<>>)

\* C13: get_best_bid is the highest price of the active resting buys and
\* get_best_ask the lowest price of the active resting sells; the value
\* returned for a side without active orders is returned in no other case.
C13_BestPrices ==
    /\ ActiveResting("BUY") # {} =>
          get_best_bid = Max({orders[id].price : id \in ActiveResting("BUY")})
    /\ ActiveResting("SELL") # {} =>
          get_best_ask = Min({orders[id].price : id \in ActiveResting("SELL")})
    /\ (get_best_bid = NoOrders("BUY")) <=> (ActiveResting("BUY") = {})
    /\ (get_best_ask = NoOrders("SELL")) <=> (ActiveResting("SELL") = {})

\* C14: an add_limit_order call with quantity 0 is rejected: it puts nothing
\* in the ledger or in a queue and appends no trade.
C14_ZeroQuantityRejected ==
    [][(ret'.op = "add_limit_order" /\ orders'[ret'.id].quantity = 0) =>
          UNCHANGED <<order_map, buy_orders, sell_orders, trades>>]_vars

-----------------------------------------------------------------------------
\* The depth view a side should give: its best `levels` active prices (all
\* of them when there are fewer), each with the total remaining quantity of
\* the active resting orders at that price.
ActivePrices(side) == {orders[id].price : id \in ActiveResting(side)}

BestLevels(side, levels) ==
    {p \in ActivePrices(side) :
        Cardinality({q \in ActivePrices(side) : Better(side, q, p)}) < levels}

ExpectedDepth(side, levels) ==
    [p \in BestLevels(side, levels) |->
        SumRemaining({id \in ActiveResting(side) : orders[id].price = p})]

\* C15: for every number of levels, the ask levels and the bid levels that
\* print_book aggregates are the best levels of the side with the total
\* active remaining quantity of each.
C15_DepthView ==
    \A levels \in 1..MaxDepth :
        /\ AskDepth(levels) = ExpectedDepth("SELL", levels)
        /\ BidDepth(levels) = ExpectedDepth("BUY", levels)

\* C16: between public operations every order stored in order_map has
\* remaining_quantity > 0 (stated for orders of positive quantity, the case
\* the claim names: an order filled during its own add_limit_order call).
C16_LedgerUnresolved ==
    \A id \in order_map :
        orders[id].quantity > 0 => orders[id].remaining_quantity > 0

\* The best price of a side of the reference engine.
RefHasBest(side) == RefList(ref, side) # <<>>
RefBest(side) == Head(RefList(ref, side)).price

\* C17: after every call the program and the reference engine, given the
\* same calls, have the same trade log and the same best bid and best ask
\* (both have none, or both have the same price).
C17_LazyDeletionUnobservable ==
    /\ trades = ref.trades
    /\ IF RefHasBest("BUY")
       THEN ActiveResting("BUY") # {} /\ get_best_bid = RefBest("BUY")
       ELSE ActiveResting("BUY") = {} /\ get_best_bid = NoOrders("BUY")
    /\ IF RefHasBest("SELL")
       THEN ActiveResting("SELL") # {} /\ get_best_ask = RefBest("SELL")
       ELSE ActiveResting("SELL") = {} /\ get_best_ask = NoOrders("SELL")

\* What is left for the running call to do: the entries of the two queues
\* and the incoming order's remaining quantity, then its position in the
\* iteration.
Position ==
    CASE call.pc = "while" -> 4
      [] call.pc = "clean_buy" -> 3
      [] call.pc = "clean_sell" -> 2
      [] call.pc = "body" -> 1
      [] OTHER -> 0

Measure ==
    IF call = Idle THEN 0
    ELSE 5 * (Len(buy_orders) + Len(sell_orders)
              + orders[call.id].remaining_quantity) + Position

\* C18: a call of add_limit_order or add_market_order that has begun
\* returns.  Every step of a running call decreases Measure, which is never
\* negative; an iteration that goes round the loop again has executed one
\* trade of quantity >= 1 that exhausted the incoming order or the resting
\* one (the continue branch is not taken); and a call in progress leads to
\* no call in progress.
C18_Terminates ==
    /\ [](Measure >= 0)
    /\ [][call # Idle => Measure' < Measure]_vars
    /\ [][(call.pc = "body" /\ call'.pc = "while") =>
             /\ Len(NewTrades) = 1
             /\ NewTrades[1].quantity >= 1
             /\ \/ orders'[NewTrades[1].buyer_id].remaining_quantity = 0
                \/ orders'[NewTrades[1].seller_id].remaining_quantity = 0]_vars
    /\ (call # Idle) ~> (call = Idle)

\* A call is cleaning a queue whose head is exhausted and which holds a
\* second exhausted entry below it.
C18_Witness ==
    /\ call.pc = "clean_sell"
    /\ Len(sell_orders) >= 2
    /\ orders[PQTop(sell_orders)].remaining_quantity = 0
    /\ Cardinality({id \in Range(sell_orders) :
                       orders[id].remaining_quantity = 0}) >= 2

\* The limit orders with remaining_quantity > 0.
LiveLimit ==
    {id \in DOMAIN orders :
        orders[id].type = "LIMIT" /\ orders[id].remaining_quantity > 0}

\* C19: between public operations every limit order with
\* remaining_quantity > 0 is in the queue of its side and in order_map; an
\* entry that a call removes from a queue has remaining_quantity 0; and
\* cancel_order on a live limit order returns true.
C19_NoLiveOrderLost ==
    /\ [](\A id \in LiveLimit :
             /\ id \in Range(Queue(orders[id].side))
             /\ id \in order_map)
    /\ [][\A side \in Sides :
             \A id \in Range(Queue(side)) \ Range(Queue(side)') :
                orders'[id].remaining_quantity = 0]_vars
    /\ [][(IsCancel(ret') /\ ret'.id \in LiveLimit) => ret'.result]_vars

\* A live limit order rests in a queue from which a cancelled order that
\* was resting with quantity left has been evicted.
C19_Witness ==
    \E side \in Sides :
        /\ \E id \in LiveLimit : orders[id].side = side
        /\ \E c \in cancelled_ids :
              /\ orders[c].side = side
              /\ TradedQty(trades, c, Len(trades)) < orders[c].quantity
              /\ c \notin Range(Queue(side))

\* C20: no limit order trades at a price worse than its own: a trade whose
\* buyer is a limit order has a price not above the buyer's limit, a trade
\* whose seller is a limit order has a price not below the seller's limit,
\* for the incoming and for the resting party alike.
C20_LimitPriceProtection ==
    \A i \in 1..Len(trades) :
        LET t == trades[i] IN
        /\ orders[t.buyer_id].type = "LIMIT" => t.price <= orders[t.buyer_id].price
        /\ orders[t.seller_id].type = "LIMIT" => t.price >= orders[t.seller_id].price

\* An incoming limit sell traded above its limit and an incoming limit buy
\* traded below its limit, each with a resting limit order.
C20_Witness ==
    /\ \E i \in 1..Len(trades) :
          LET t == trades[i] IN
          /\ orders[t.buyer_id].type = "LIMIT"
          /\ orders[t.seller_id].type = "LIMIT"
          /\ t.seller_id > t.buyer_id
          /\ t.price > orders[t.seller_id].price
    /\ \E i \in 1..Len(trades) :
          LET t == trades[i] IN
          /\ orders[t.buyer_id].type = "LIMIT"
          /\ orders[t.seller_id].type = "LIMIT"
          /\ t.buyer_id > t.seller_id
          /\ t.price < orders[t.buyer_id].price

====
